---- MODULE Spec2Model ----
(***************************************************************************)
(* Multi-curve least-squares fitting framework (model_fit.py): the         *)
(* Parameters container, its pack/unpack codec, _curve_params, and the     *)
(* fit() driver with the external solver (scipy.optimize.leastsq) as a     *)
(* nondeterministic caller of the residual function.  bin_photons, whose   *)
(* implementation is not among the sources, is modelled from its contract. *)
(***************************************************************************)
EXTENDS Integers, Sequences, FiniteSets, TLC

\* ------------------------------------------------------------------ bounds
MaxCurves == 2        \* len(curves) ranges over 1..MaxCurves
MaxVal == 1           \* declared default values range over 0..MaxVal
MaxPhotons == 3       \* bin_photons inputs hold 1..MaxPhotons timestamps,
MaxGap == 4           \*   consecutive ones 0..MaxGap apart,
MaxWidth == 2         \*   binned with widths 1..MaxWidth

\* Model.params of the model under fit: the declared names, in declaration order.
Declared == <<"tau", "amp">>
Names == {Declared[j] : j \in 1..Len(Declared)}

Vals == 0..MaxVal
\* longest packed vector: every declared parameter fitted and per-curve
MaxLen == Len(Declared) * MaxCurves
\* numbers the solver proposes, distinct from every declared default:
\* Fresh(j) for position j of a vector
Fresh(j) == MaxVal + j
\* a number the caller writes into a container it got back from fit()
Marker == MaxVal + MaxLen + 2

\* Parameter.def_scope: the two valid scopes, the unset default (None) and
\* some other string
ValidScopes == {"fitted", "fixed"}
Scopes == ValidScopes \cup {"None", "global"}

\* ------------------------------------------------------------------ values
\* A Python value held in Parameter.value or handed around: a number, a list
\* of numbers, or a numpy array (a slice of the packed vector).
Num(x) == [kind |-> "num", v |-> <<x>>]
List(s) == [kind |-> "list", v |-> s]
NdArray(s) == [kind |-> "ndarray", v |-> s]

\* isinstance(x, list); x is any Python object of the model
isinstance_list(x) == x.kind = "list"

ValuesFor(n) == {Num(x) : x \in Vals} \cup {List(s) : s \in [1..n -> Vals]}

\* packed[i:j] on a vector (0-based, end-exclusive, clipped to the vector)
Slice(packed, i, j) ==
  LET hi == IF j < Len(packed) THEN j ELSE Len(packed)
  IN  IF i >= hi THEN <<>> ELSE SubSeq(packed, i + 1, hi)

\* ------------------------------------------------------------ Parameters
\* Parameters.__init__: one copied Parameter per declared parameter, scope
\* and value taken from the declaration; the dict keeps insertion order.
\* _fitted/_fixed do not exist until validate() (has_lists = FALSE).
Parameters_init(n, def_scope, def_value) ==
  [curves |-> n,
   order |-> Declared,
   items |-> [k \in Names |->
               [kind |-> "Parameter", scope |-> def_scope[k], value |-> def_value[k]]],
   has_lists |-> FALSE,
   _fitted |-> <<>>,
   _fixed |-> <<>>]

RECURSIVE validate_loop(_, _)
validate_loop(self, j) ==
  IF j > Len(self.order) THEN [self |-> self, exc |-> "none"]
  ELSE LET name == self.order[j]
           p == self.items[name]
       IN  IF p.scope = "fitted"
             THEN validate_loop([self EXCEPT !._fitted = Append(@, name)], j + 1)
           ELSE IF p.scope = "fixed"
             THEN validate_loop([self EXCEPT !._fixed = Append(@, name)], j + 1)
           ELSE [self |-> self, exc |-> "RuntimeError: Invalid scope"]

\* a validate() that appends to the lists of the previous call
validate_accumulating(self) ==
  validate_loop([self EXCEPT !.has_lists = TRUE], 1)

\* Parameters.validate
validate(self) ==
  validate_loop([self EXCEPT !.has_lists = TRUE, !._fitted = <<>>, !._fixed = <<>>], 1)

RECURSIVE _pack_loop(_, _, _)
_pack_loop(self, j, packed) ==
  IF j > Len(self._fitted) THEN packed
  ELSE LET k == self._fitted[j]
           value == self.items[k].value
       IN  IF isinstance_list(value)
             THEN _pack_loop(self, j + 1, packed \o value.v)
             ELSE _pack_loop(self, j + 1, Append(packed, value.v[1]))

\* Parameters._pack: the vector np.array(packed); a list value is spliced in
\* (extend), any other value is appended as one element.
_pack(self) == _pack_loop(self, 1, <<>>)

\* numpy's packed[i] for i >= 0: an index past the end raises IndexError
InRange(packed, i) == i < Len(packed)

RECURSIVE _unpack_loop(_, _, _, _)
_unpack_loop(self, packed, j, i) ==
  IF j > Len(self._fitted) THEN [self |-> self, exc |-> "none"]
  ELSE LET k == self._fitted[j]
           n == self.curves
       IN  IF isinstance_list(self.items[k])
             THEN _unpack_loop(
                    [self EXCEPT !.items[k].value = NdArray(Slice(packed, i, i + n))],
                    packed, j + 1, i + n)
           ELSE IF ~ InRange(packed, i)
             THEN [self |-> self, exc |-> "IndexError"]
           ELSE _unpack_loop(
                    [self EXCEPT !.items[k].value = Num(packed[i + 1])],
                    packed, j + 1, i + 1)

\* an _unpack that walks every key of the dict, not only the fitted names
_unpack_every_key(self, packed) ==
  LET r == _unpack_loop([self EXCEPT !._fitted = self.order], packed, 1, 0)
  IN  [self |-> [r.self EXCEPT !._fitted = self._fitted], exc |-> r.exc]

\* Parameters._unpack
_unpack(self, packed) == _unpack_loop(self, packed, 1, 0)

RECURSIVE _curve_params_loop(_, _, _)
_curve_params_loop(self, j, params) ==
  IF j > Len(self.order) THEN [params |-> params, exc |-> "none"]
  ELSE LET k == self.order[j]
           v == self.items[k].value
       IN  IF isinstance_list(v)
             \* v[i]: no name i is bound in _curve_params or in the module
             THEN [params |-> params, exc |-> "NameError"]
             ELSE _curve_params_loop(self, j + 1, [params EXCEPT ![k] = v])

Unset == [kind |-> "unset", v |-> <<>>]

\* Parameters._curve_params
_curve_params(self, curve) ==
  _curve_params_loop(self, 1, [k \in Names |-> Unset])

\* ------------------------------------------------------------------- fit
\* The objects fit() handles: the caller's Parameters and the working copy.
Refs == {"caller", "copy"}
NoObject == [kind |-> "NoObject"]
NoResult == [kind |-> "NoResult"]

\* an assignment where the copy should be: both names denote one object
deepcopy_alias(h, r) == [heap |-> h, ref |-> r]

\* copy.deepcopy(params): a new object equal to the one referenced
deepcopy(h, r) == [heap |-> [h EXCEPT !["copy"] = h[r]], ref |-> "copy"]

RECURSIVE _compute_error_loop(_, _, _, _)
_compute_error_loop(self, i, evals, fail_at) ==
  IF i >= self.curves THEN [exc |-> "none", evals |-> evals]
  ELSE LET cp == _curve_params(self, i)
           call == [curve |-> i, cparams |-> cp.params]
       IN  IF cp.exc # "none" THEN [exc |-> cp.exc, evals |-> evals]
           ELSE IF fail_at = i THEN [exc |-> "ModelError", evals |-> Append(evals, call)]
           ELSE _compute_error_loop(self, i + 1, Append(evals, call), fail_at)

\* _compute_error(p, curves, params, model): unpack the trial vector, then
\* evaluate the model on every curve; fail_at is the curve on which the
\* model raises (-1: none).  evals lists the model calls made.
_compute_error(self, p, fail_at) ==
  LET u == _unpack(self, p)
      r == _compute_error_loop(u.self, 0, <<>>, fail_at)
  IN  IF u.exc # "none" THEN [self |-> u.self, exc |-> u.exc, evals |-> <<>>]
      ELSE [self |-> u.self, exc |-> r.exc, evals |-> r.evals]

\* a convergence test on the solver's status code instead of cov_x
ier_is_failure(res) == res.ier \notin 1..4

\* fit, line 139: cov_x is None
cov_x_is_None(res) == res.cov_x = "None"

\* Vectors leastsq may pass to the residual function or report: the start
\* vector, the start vector with one entry stepped to a new number (a
\* finite-difference step), or a vector of new, pairwise distinct numbers.
SolverVectors(start) ==
  {start}
    \cup {[start EXCEPT ![j] = Fresh(j)] : j \in 1..Len(start)}
    \cup {[j \in 1..Len(start) |-> Fresh(j)]}
CovX == {"None", "matrix"}
Ier == {1, 5}

VARIABLES
  heap,      \* Refs -> Parameters object or NoObject
  params,    \* fit's local variable params: the object it works on
  pc,        \* position of the fit() call
  orig,      \* the caller's container as it was when fit() was called
  p0,        \* fit's p0
  evals,     \* model calls of the latest residual evaluation
  res,       \* what leastsq returned
  ret,       \* the object fit() returned ("none": nothing)
  result,    \* the returned container as it was when fit() returned
  raised     \* the exception fit() raised ("none": nothing)

VARIABLES
  c,         \* a Parameters container the caller operates on directly
  op,        \* the latest operation on c and its argument
  out,       \* what that operation returned or raised
  pre        \* c as it was before that operation

VARIABLES
  timestamps, \* the sorted photon timestamps given to bin_photons
  bin_width,  \* its bin width
  consumed,   \* how many timestamps it has read
  bin_start,  \* start time of the bin being filled
  count,      \* photons counted in that bin so far
  bins,       \* the bins emitted so far: records (time, counts)
  done        \* the input is exhausted and the output complete

fitVars == <<heap, params, pc, orig, p0, evals, res, ret, result, raised>>
codecVars == <<c, op, out, pre>>
binVars == <<timestamps, bin_width, consumed, bin_start, count, bins, done>>
vars == <<fitVars, codecVars, binVars>>

NoOp == [name |-> "none", arg |-> <<>>]
NoOut == [exc |-> "none", value |-> <<>>]

FitIdle ==
  /\ heap = [r \in Refs |-> NoObject]
  /\ params = "caller"
  /\ pc = "created"
  /\ orig = NoObject
  /\ p0 = <<>>
  /\ evals = <<>>
  /\ res = NoResult
  /\ ret = "none"
  /\ result = NoObject
  /\ raised = "none"

CodecIdle ==
  /\ c = NoObject
  /\ op = NoOp
  /\ out = NoOut
  /\ pre = NoObject

FitInit ==
  /\ \E n \in 1..MaxCurves :
       \E def_scope \in [Names -> Scopes] :
         \E def_value \in [Names -> ValuesFor(n)] :
           heap = [r \in Refs |-> IF r = "caller"
                                   THEN Parameters_init(n, def_scope, def_value)
                                   ELSE NoObject]
  /\ params = "caller"
  /\ pc = "created"
  /\ orig = NoObject
  /\ p0 = <<>>
  /\ evals = <<>>
  /\ res = NoResult
  /\ ret = "none"
  /\ result = NoObject
  /\ raised = "none"

BinIdle ==
  /\ timestamps = <<>>
  /\ bin_width = 1
  /\ consumed = 0
  /\ bin_start = 0
  /\ count = 0
  /\ bins = <<>>
  /\ done = FALSE

\* the caller calls validate() itself before the fit; an exception leaves
\* the lists as far as they got
CallerValidate ==
  /\ pc = "created"
  /\ ~ heap["caller"].has_lists
  /\ heap' = [heap EXCEPT !["caller"] = validate(@).self]
  /\ UNCHANGED <<params, pc, orig, p0, evals, res, ret, result, raised>>
  /\ UNCHANGED <<codecVars, binVars>>

\* fit, lines 131-132
FitCall ==
  /\ pc = "created"
  /\ LET d == deepcopy(heap, params)
     IN  /\ heap' = d.heap
         /\ params' = d.ref
  /\ orig' = heap["caller"]
  /\ pc' = "copied"
  /\ UNCHANGED <<p0, evals, res, ret, result, raised>>
  /\ UNCHANGED <<codecVars, binVars>>

\* fit, line 133
FitValidate ==
  /\ pc = "copied"
  /\ LET r == validate(heap[params])
     IN  /\ heap' = [heap EXCEPT ![params] = r.self]
         /\ raised' = r.exc
         /\ pc' = IF r.exc = "none" THEN "validated" ELSE "failed"
  /\ UNCHANGED <<params, orig, p0, evals, res, ret, result>>
  /\ UNCHANGED <<codecVars, binVars>>

\* fit, line 134
FitPack ==
  /\ pc = "validated"
  /\ p0' = _pack(heap[params])
  /\ pc' = "packed"
  /\ UNCHANGED <<heap, params, orig, evals, res, ret, result, raised>>
  /\ UNCHANGED <<codecVars, binVars>>

\* leastsq calls the residual function _compute_error with a trial vector
Residual(p, fail_at) ==
  /\ pc \in {"packed", "solving"}
  /\ fail_at < heap[params].curves
  /\ LET r == _compute_error(heap[params], p, fail_at)
     IN  /\ heap' = [heap EXCEPT ![params] = r.self]
         /\ evals' = r.evals
         /\ raised' = r.exc
         /\ pc' = IF r.exc = "none" THEN "solving" ELSE "failed"
  /\ UNCHANGED <<params, orig, p0, res, ret, result>>
  /\ UNCHANGED <<codecVars, binVars>>

\* leastsq returns (p, cov_x, infodict, mesg, ier); fit, lines 137-141
SolverReturn(p, cov_x, ier) ==
  /\ pc = "solving"
  /\ LET r == [p |-> p, cov_x |-> cov_x, ier |-> ier]
         u == _unpack(heap[params], p)
     IN  /\ res' = r
         /\ IF cov_x_is_None(r)
              THEN /\ raised' = "RuntimeError: Fit failed to converge"
                   /\ pc' = "failed"
                   /\ UNCHANGED <<heap, ret, result>>
              ELSE IF u.exc # "none"
              THEN /\ raised' = u.exc
                   /\ pc' = "failed"
                   /\ heap' = [heap EXCEPT ![params] = u.self]
                   /\ UNCHANGED <<ret, result>>
              ELSE /\ heap' = [heap EXCEPT ![params] = u.self]
                   /\ ret' = params
                   /\ result' = u.self
                   /\ pc' = "converged"
                   /\ UNCHANGED raised
  /\ UNCHANGED <<params, orig, p0, evals>>
  /\ UNCHANGED <<codecVars, binVars>>

\* the caller changes a value in the container fit() returned
ModifyReturned(k) ==
  /\ pc = "converged"
  /\ heap[ret] = result
  /\ heap' = [heap EXCEPT ![ret].items[k].value = Num(Marker)]
  /\ UNCHANGED <<params, pc, orig, p0, evals, res, ret, result, raised>>
  /\ UNCHANGED <<codecVars, binVars>>

FitNext ==
  \/ CallerValidate
  \/ FitCall
  \/ FitValidate
  \/ FitPack
  \/ \E p \in SolverVectors(p0), fail_at \in -1..(MaxCurves - 1) : Residual(p, fail_at)
  \/ \E p \in SolverVectors(p0), cov_x \in CovX, ier \in Ier : SolverReturn(p, cov_x, ier)
  \/ \E k \in Names : ModifyReturned(k)

Init == FitInit /\ CodecIdle /\ BinIdle
Next == FitNext
Spec == Init /\ [][Next]_vars

\* ---------------------------------------------- operations called directly
\* vectors handed to _unpack: new, pairwise distinct numbers, of every
\* length from 0 to one more than the packed length
Ramp(len) == [j \in 1..len |-> Fresh(j)]
TestVectors(len) == {Ramp(l) : l \in 0..(len + 1)}

CodecInit ==
  /\ \E n \in 1..MaxCurves :
       \E def_scope \in [Names -> Scopes] :
         \E def_value \in [Names -> ValuesFor(n)] :
           c = Parameters_init(n, def_scope, def_value)
  /\ op = NoOp
  /\ out = NoOut
  /\ pre = NoObject

\* params.validate()
Validate ==
  /\ LET r == validate(c)
     IN  /\ c' = r.self
         /\ out' = [exc |-> r.exc, value |-> <<>>]
  /\ op' = [name |-> "validate", arg |-> <<>>]
  /\ pre' = c
  /\ UNCHANGED <<fitVars, binVars>>

\* params._pack(); before validate() the attribute _fitted does not exist
Pack ==
  /\ out' = IF c.has_lists THEN [exc |-> "none", value |-> _pack(c)]
                           ELSE [exc |-> "AttributeError", value |-> <<>>]
  /\ op' = [name |-> "pack", arg |-> <<>>]
  /\ pre' = c
  /\ UNCHANGED c
  /\ UNCHANGED <<fitVars, binVars>>

\* params._unpack(v)
Unpack(v) ==
  /\ LET r == IF c.has_lists THEN _unpack(c, v)
                             ELSE [self |-> c, exc |-> "AttributeError"]
     IN  /\ c' = r.self
         /\ out' = [exc |-> r.exc, value |-> <<>>]
  /\ op' = [name |-> "unpack", arg |-> v]
  /\ pre' = c
  /\ UNCHANGED <<fitVars, binVars>>

\* params._unpack(params._pack())
RoundTrip ==
  /\ c.has_lists
  /\ LET r == _unpack(c, _pack(c))
     IN  /\ c' = r.self
         /\ out' = [exc |-> r.exc, value |-> <<>>]
  /\ op' = [name |-> "roundtrip", arg |-> _pack(c)]
  /\ pre' = c
  /\ UNCHANGED <<fitVars, binVars>>

\* params._curve_params(i) for a curve index in range
CurveParams(i) ==
  /\ i < c.curves
  /\ LET r == _curve_params(c, i)
     IN  out' = [exc |-> r.exc, value |-> r.params]
  /\ op' = [name |-> "curve_params", arg |-> i]
  /\ pre' = c
  /\ UNCHANGED c
  /\ UNCHANGED <<fitVars, binVars>>

CodecNext ==
  \/ Validate
  \/ Pack
  \/ \E v \in TestVectors(Len(_pack(c))) : Unpack(v)
  \/ RoundTrip
  \/ \E i \in 0..(MaxCurves - 1) : CurveParams(i)

CodecStart == FitIdle /\ CodecInit /\ BinIdle
SpecCodec == CodecStart /\ [][CodecNext]_vars

\* ----------------------------------------------------------- bin_photons
\* bin_photons reads sorted timestamps and writes one (time, counts) record
\* per fixed-width bin, the first bin starting at the first timestamp's
\* bin; the bin still being filled when the input ends is not written.

\* the inputs of test_bin_photons.py
TestArange1001 == [i \in 1..1001 |-> i - 1]
TestArange101 == [i \in 1..101 |-> i - 1]
TestZeroBins == <<0, 100, 110>>
TestInputs == {TestArange1001, TestArange101, TestZeroBins}
TestBinLen == 10

\* sorted timestamps starting at 0, given by the gaps between them
RECURSIVE FromGaps(_, _)
FromGaps(gaps, j) ==
  IF j = 0 THEN <<0>>
  ELSE LET s == FromGaps(gaps, j - 1) IN Append(s, s[j] + gaps[j])

SmallInputs ==
  UNION {{FromGaps(g, n - 1) : g \in [1..(n - 1) -> 0..MaxGap]} : n \in 1..MaxPhotons}

\* close bins until time t falls into the bin being filled
RECURSIVE Advance(_, _, _, _, _)
Advance(written, start, cnt, w, t) ==
  IF t < start + w THEN [bins |-> written, bin_start |-> start, count |-> cnt]
  ELSE Advance(Append(written, [time |-> start, counts |-> cnt]), start + w, 0, w, t)

\* an end of input that also writes the bin being filled
FinishFlushing(written, start, cnt) == Append(written, [time |-> start, counts |-> cnt])

\* end of input: the partial bin is dropped
Finish(written, start, cnt) == written

BinInit ==
  /\ \/ timestamps \in SmallInputs /\ bin_width \in 1..MaxWidth
     \/ timestamps \in TestInputs /\ bin_width = TestBinLen
  /\ consumed = 0
  /\ bin_start = 0
  /\ count = 0
  /\ bins = <<>>
  /\ done = FALSE

\* read one timestamp
BinStep ==
  /\ ~ done
  /\ consumed < Len(timestamps)
  /\ LET a == Advance(bins, bin_start, count, bin_width, timestamps[consumed + 1])
     IN  /\ bins' = a.bins
         /\ bin_start' = a.bin_start
         /\ count' = a.count + 1
  /\ consumed' = consumed + 1
  /\ UNCHANGED <<timestamps, bin_width, done>>
  /\ UNCHANGED <<fitVars, codecVars>>

\* end of input
BinEnd ==
  /\ ~ done
  /\ consumed = Len(timestamps)
  /\ bins' = Finish(bins, bin_start, count)
  /\ done' = TRUE
  /\ UNCHANGED <<timestamps, bin_width, consumed, bin_start, count>>
  /\ UNCHANGED <<fitVars, codecVars>>

BinNext ==
  \/ BinStep
  \/ BinEnd

BinStart == FitIdle /\ CodecIdle /\ BinInit
SpecBin == BinStart /\ [][BinNext]_vars

\* ------------------------------------------------------------ properties
AllScopesValid(obj) == \A k \in Names : obj.items[k].scope \in ValidScopes
NamesWithScope(obj, s) == SelectSeq(Declared, LAMBDA k : obj.items[k].scope = s)
FittedNames(obj) == {k \in Names : obj.items[k].scope = "fitted"}
FixedNames(obj) == {k \in Names : obj.items[k].scope = "fixed"}
IsObject(x) == x # NoObject

\* the values of the parameters whose scope is fitted, flattened in
\* declaration order (read off the scopes, not off _fitted)
RECURSIVE FlattenFitted(_, _)
FlattenFitted(obj, j) ==
  IF j > Len(Declared) THEN <<>>
  ELSE (IF obj.items[Declared[j]].scope = "fitted"
          THEN obj.items[Declared[j]].value.v ELSE <<>>)
       \o FlattenFitted(obj, j + 1)

\* (scalar-valued fitted parameters) + (per-curve fitted parameters) x n
ShapeLen(obj) ==
  Cardinality({k \in FittedNames(obj) : obj.items[k].value.kind = "num"})
    + Cardinality({k \in FittedNames(obj) : obj.items[k].value.kind = "list"}) * obj.curves

\* the container fit() is working on, as fit() left it
Working == IF pc = "converged" THEN result ELSE heap[params]
InvalidScopeRaised == raised = "RuntimeError: Invalid scope"
ConvergenceRaised == raised = "RuntimeError: Fit failed to converge"
ValidatedOk(obj) == IsObject(obj) /\ obj.has_lists /\ AllScopesValid(obj)

\* C1: on a container validate() succeeded on, _unpack(_pack()) raises
\* nothing and leaves every fitted parameter's value as it was, a number
\* still a number and a per-curve list still the same list.
C1_RoundTripLaw ==
  (op.name = "roundtrip" /\ ValidatedOk(pre)) =>
     /\ out.exc = "none"
     /\ \A k \in FittedNames(pre) : c.items[k].value = pre.items[k].value

\* C2: the packed length is (scalar fitted) + (per-curve fitted) x n on
\* every container of a fit session, with the fitted values in declaration
\* order in the start vector, and it is the same after every _unpack of the
\* session as it was for the start vector.
C2_ShapeInvariant ==
  pc \in {"packed", "solving", "converged"} =>
     /\ p0 = FlattenFitted(orig, 1)
     /\ Len(p0) = ShapeLen(orig)
     /\ Len(_pack(Working)) = ShapeLen(Working)
     /\ Len(_pack(Working)) = Len(p0)

\* C3: _curve_params(i), i in range, raises nothing and returns for every
\* declared parameter one number: the value itself, or the i-th element of
\* a per-curve value.
C3_CurveParamsComplete ==
  op.name = "curve_params" =>
     /\ out.exc = "none"
     /\ \A k \in Names :
          LET v == pre.items[k].value
          IN  out.value[k] = IF v.kind = "list" THEN Num(v.v[op.arg + 1]) ELSE v

\* C4: a parameter that is fixed when fit() is called keeps its value in
\* the working container at every point of the call and in the container
\* returned, and the start vector holds the fitted values only.
C4_FixedParameterImmunity ==
  pc # "created" =>
     /\ \A k \in FixedNames(orig) : Working.items[k].value = orig.items[k].value
     /\ pc \in {"packed", "solving", "converged"} => p0 = FlattenFitted(orig, 1)
     /\ (pc = "failed" /\ ~ InvalidScopeRaised) => p0 = FlattenFitted(orig, 1)

C4_Witness ==
  /\ pc = "converged"
  /\ FixedNames(orig) # {}
  /\ \E k \in FittedNames(orig) : result.items[k].value # orig.items[k].value

\* C5: from the call of fit() on, whether it returns or raises, the
\* caller's container is what it was at the call, and the container
\* returned is another object: changing it leaves the caller's as it was.
C5_CallerContainerUntouched ==
  pc # "created" =>
     /\ heap["caller"] = orig
     /\ ret # "caller"
     /\ pc = "converged" => ret \in Refs

C5_Witness ==
  /\ pc = "converged"
  /\ heap[ret] # result
  /\ \E k \in Names : result.items[k].value # orig.items[k].value

\* C6: once leastsq has returned, fit() has raised the convergence error
\* and returned nothing if cov_x is None, and has returned a container and
\* raised nothing otherwise, whatever the final vector and status code.
C6_ConvergenceFailurePath ==
  res # NoResult =>
     IF res.cov_x = "None"
       THEN pc = "failed" /\ ConvergenceRaised /\ ret = "none"
       ELSE pc = "converged" /\ raised = "none" /\ ret \in Refs

C6_Witness ==
  /\ pc = "failed"
  /\ res # NoResult
  /\ res.cov_x = "None"
  /\ res.ier = 1
  /\ res.p # p0

\* C7: validate() succeeds exactly when every scope is fitted or fixed;
\* then _fitted and _fixed are the declared names of that scope in
\* declaration order, computed afresh by each call.  Otherwise it raises
\* the invalid-scope error, and fit() raises it with nothing packed and
\* the solver not called.
C7_Validate ==
  /\ \A r \in Refs :
       ValidatedOk(heap[r]) =>
          /\ heap[r]._fitted = NamesWithScope(heap[r], "fitted")
          /\ heap[r]._fixed = NamesWithScope(heap[r], "fixed")
  /\ pc \notin {"created", "copied"} =>
       IF AllScopesValid(orig)
         THEN /\ ~ InvalidScopeRaised
              /\ Working._fitted = NamesWithScope(orig, "fitted")
              /\ Working._fixed = NamesWithScope(orig, "fixed")
         ELSE /\ pc = "failed"
              /\ InvalidScopeRaised
              /\ p0 = <<>> /\ evals = <<>> /\ res = NoResult /\ ret = "none"

C7_Witness ==
  /\ pc = "validated"
  /\ orig.has_lists
  /\ Len(heap[params]._fitted) = 1
  /\ Len(heap[params]._fixed) = 1

\* C8: on a container validate() succeeded on, _unpack(v) raises when the
\* length of v is not the length of _pack().
C8_UnpackConsumesExactly ==
  (op.name = "unpack" /\ ValidatedOk(pre) /\ Len(op.arg) # Len(_pack(pre))) =>
     out.exc # "none"

\* C10: fit() validates before it packs and packs before the first
\* residual call; a residual call evaluates the curves in curve order on
\* the container it has unpacked its trial vector into; the call ends
\* either converged (a container returned) or failed (an exception), and
\* the fitted values returned are those of leastsq's final vector.
C10_FitProtocol ==
  /\ pc \in {"validated", "packed", "solving", "converged"} => Working.has_lists
  /\ (p0 # <<>> \/ evals # <<>> \/ res # NoResult) => pc \notin {"created", "copied", "validated"}
  /\ res # NoResult => pc \in {"converged", "failed"}
  /\ \A j \in 1..Len(evals) : evals[j].curve = j - 1
  /\ pc = "solving" =>
       /\ Len(evals) = heap[params].curves
       /\ \A j \in 1..Len(evals) :
            \A k \in Names : evals[j].cparams[k] = heap[params].items[k].value
  /\ (pc = "converged") <=> (ret # "none")
  /\ (pc = "failed") <=> (raised # "none")
  /\ ~ (ret # "none" /\ raised # "none")
  /\ pc = "converged" => _pack(result) = res.p

\* the protocol of C10 without its last clause
FitOrdering ==
  /\ pc \in {"validated", "packed", "solving", "converged"} => Working.has_lists
  /\ (p0 # <<>> \/ evals # <<>> \/ res # NoResult) => pc \notin {"created", "copied", "validated"}
  /\ res # NoResult => pc \in {"converged", "failed"}
  /\ \A j \in 1..Len(evals) : evals[j].curve = j - 1
  /\ (pc = "converged") <=> (ret # "none")
  /\ (pc = "failed") <=> (raised # "none")

\* number of timestamps in bin k, the interval [k*w, (k+1)*w)
InBin(k) ==
  Cardinality({i \in 1..Len(timestamps) :
                 k * bin_width <= timestamps[i] /\ timestamps[i] < (k + 1) * bin_width})
LastTime == timestamps[Len(timestamps)]

\* C9: for sorted timestamps starting at 0, the output is the consecutive
\* bins [k*w, (k+1)*w), k = 0, 1, ..., up to but not including the bin of
\* the last timestamp, each with the number of timestamps in it (0 for an
\* empty bin); the three inputs of the test give 100 bins of 10, 10 bins
\* of 10, and 11 bins with counts 1, 0, ..., 0, 1.
C9_Binning ==
  done =>
     /\ Len(bins) = LastTime \div bin_width
     /\ \A b \in 1..Len(bins) :
          /\ bins[b].time = (b - 1) * bin_width
          /\ bins[b].counts = InBin(b - 1)
     /\ (timestamps = TestArange1001 /\ bin_width = 10) =>
          (Len(bins) = 100 /\ \A b \in 1..100 : bins[b].counts = 10)
     /\ (timestamps = TestArange101 /\ bin_width = 10) =>
          (Len(bins) = 10 /\ \A b \in 1..10 : bins[b].counts = 10)
     /\ (timestamps = TestZeroBins /\ bin_width = 10) =>
          /\ Len(bins) = 11
          /\ bins[1].counts = 1
          /\ \A b \in 2..10 : bins[b].counts = 0
          /\ bins[11].counts = 1

C9_Witness ==
  /\ done
  /\ timestamps = TestZeroBins
  /\ Len(bins) = 11
  /\ count = 1

====
